---- MODULE Spec2Model ----
(***************************************************************************)
(* Shelter spatial index (lib/spatial) and route safety scoring            *)
(* (lib/routing) of derech-tzlecha.                                        *)
(*                                                                         *)
(* Numbers.  The program computes in IEEE doubles; the model computes in   *)
(* fixed point:                                                            *)
(*   - a coordinate (lat, lon) is the arc length, in decimetres, from the  *)
(*     reference point of the modelled neighbourhood (Tel Aviv centre):    *)
(*     0.001 degree of latitude is LatMilli dm, 0.001 degree of longitude  *)
(*     is LonMilli dm;                                                     *)
(*   - a distance is in decimetres, rounded up;                            *)
(*   - an angle difference ("degrees") is in units of 1/1,110,000 degree,  *)
(*     so that meters / 111000 is exact: d decimetres / 111000 m per       *)
(*     degree = d units;                                                   *)
(*   - a score (0..100) is in thousandths of a point;                      *)
(*   - Infinity is a value above every finite distance, with JavaScript's  *)
(*     arithmetic (Infinity + x = Infinity, Infinity / k = Infinity).      *)
(***************************************************************************)
EXTENDS Integers, Sequences, FiniteSets, TLC

\* ---------------------------------------------------------------- numbers

\* decimetres of arc per 0.001 degree of latitude: R * pi / 180 * 0.001,
\* with R = 6371000 m (haversineDistance)
LatMilli == 1112

\* decimetres of arc per 0.001 degree of longitude at latitude 32.0853
\* (TEL_AVIV_CENTER): LatMilli * cos(32.0853 degrees)
LonMilli == 942

\* angle units per 0.001 degree: the divisor 111000 of the degree windows
DegMilli == 1110

\* JavaScript's Infinity
Infinity == 1000000000

IsFinite(a) == a < Infinity

\* NaN, the double that compares false with every double
NaN == -2000000000

Abs(a) == IF a < 0 THEN -a ELSE a

Min2(a, b) == IF a <= b THEN a ELSE b

Max2(a, b) == IF a >= b THEN a ELSE b

\* a + b of two non-negative doubles
Plus(a, b) == IF IsFinite(a) /\ IsFinite(b) THEN a + b ELSE Infinity

\* a / k of a non-negative double by a positive finite one; 0 / 0 is NaN
Over(a, k) ==
    IF k = 0 /\ a = 0 THEN NaN
    ELSE IF IsFinite(a) THEN a \div k ELSE Infinity

\* a * k of a non-negative double by a positive finite one
Times(a, k) == IF IsFinite(a) THEN a * k ELSE Infinity

\* <<q, r>> with a * b = q * c + r and 0 <= r < c, for a, b >= 0 and c > 0,
\* without forming the product a * b (which exceeds the integer width)
RECURSIVE MulDivMod(_, _, _)
MulDivMod(a, b, c) ==
    IF b = 0 THEN <<0, 0>>
    ELSE LET h  == MulDivMod(a, b \div 2, c)
             aq == IF b % 2 = 1 THEN a \div c ELSE 0
             ar == IF b % 2 = 1 THEN a % c ELSE 0
             r  == 2 * h[2] + ar
         IN  <<2 * h[1] + aq + (r \div c), r % c>>

\* floor(a * b / c)
MulDiv(a, b, c) == MulDivMod(a, b, c)[1]

\* the least k in lo..hi with k * k >= n
RECURSIVE SqrtSearch(_, _, _)
SqrtSearch(n, lo, hi) ==
    IF lo >= hi THEN lo
    ELSE LET mid == (lo + hi) \div 2
         IN  IF mid * mid >= n THEN SqrtSearch(n, lo, mid)
             ELSE SqrtSearch(n, mid + 1, hi)

\* Math.sqrt, rounded up
Sqrt(n) == SqrtSearch(n, 0, 46340)

\* arc length of an angle difference along a meridian / along the parallel
LatArc(deg) == (deg * LatMilli) \div DegMilli

LonArc(deg) == (deg * LonMilli) \div DegMilli

\* ------------------------------------------------------------- haversine

\* squared great-circle distance: at the distances of the model (under a
\* kilometre) haversine is the planar distance of the two arc offsets
haversineSq(lat1, lon1, lat2, lon2) ==
    (lat2 - lat1) * (lat2 - lat1) + (lon2 - lon1) * (lon2 - lon1)

haversineDistance(lat1, lon1, lat2, lon2) ==
    Sqrt(haversineSq(lat1, lon1, lat2, lon2))

\* ------------------------------------------------------------ the inputs

\* bounds of the model
MaxShelters == 2

MaxRoutes == 2

Shelter(id, lat, lon) == [id |-> id, lat |-> lat, lon |-> lon]

\* the shelters of the modelled neighbourhood: two shelters sharing one
\* entrance at the reference point, one 142 m north-east, one 140 m east,
\* one 556 m north
AllShelters ==
    << Shelter("a", 0, 0), Shelter("b", 0, 0), Shelter("c", 1100, 900),
       Shelter("d", 0, 1400), Shelter("e", 5560, 0) >>

\* the sequences over S of length n without repetition
RECURSIVE Arrangements(_, _)
Arrangements(S, n) ==
    IF n = 0 THEN { <<>> }
    ELSE UNION { { Append(a, s) : s \in S \ { a[i] : i \in 1..Len(a) } } :
                 a \in Arrangements(S, n - 1) }

\* a shelter collection: at most MaxShelters of the shelters, each once, in
\* the order ingested
Collections ==
    { SelectSeq(AllShelters, LAMBDA s : s \in S) :
        S \in { T \in SUBSET { AllShelters[i] : i \in 1..Len(AllShelters) } :
                  Cardinality(T) <= MaxShelters } }

Point(lat, lon) == [lat |-> lat, lon |-> lon]

\* query points
QueryPoints == { Point(0, 0), Point(0, 500), Point(3000, 0) }

\* query radii and corridor widths, decimetres
Radii == { 0, 1000, 1500, 2000 }

\* a GeoJSON position is [lon, lat]
Pos(lon, lat) == <<lon, lat>>

LineString(coords) == [type |-> "LineString", coordinates |-> coords]

\* route geometries: 200 m north along the reference meridian; an L of
\* 111 m north then 94 m east; 300 m north-east
Geometries ==
    { LineString(<<Pos(0, -1000), Pos(0, 1000)>>),
      LineString(<<Pos(0, 0), Pos(0, 1112), Pos(942, 1112)>>),
      LineString(<<Pos(-600, 0), Pos(1200, 2400)>>) }

\* --------------------------------------------------------------- rbush

\* An RBush is modelled by the sequence of its leaf entries, in load order.
RBush == <<>>

\* tree.load(items): bulk insertion into whatever the tree holds
load(t, items) == t \o items

\* clear left out of updateShelters: the tree keeps its entries
clear_Omitted(t) == t

\* tree.clear()
clear(t) == <<>>

intersects(a, b) ==
    /\ b.minX <= a.maxX
    /\ b.minY <= a.maxY
    /\ b.maxX >= a.minX
    /\ b.maxY >= a.minY

\* tree.search(bbox): the entries whose box intersects bbox
search(t, bbox) == SelectSeq(t, LAMBDA item : intersects(bbox, item))

\* ------------------------------------------------- ShelterSpatialIndex

ShelterBBox(shelter) ==
    [minX |-> shelter.lon, minY |-> shelter.lat,
     maxX |-> shelter.lon, maxY |-> shelter.lat, shelter |-> shelter]

\* buildIndex that stops one shelter short
buildIndex_OneShort(t, coll) ==
    load(t, [i \in 1..(Len(coll) - 1) |-> ShelterBBox(coll[i])])

\* buildIndex(): load one degenerate box per shelter into this.tree
buildIndex(t, coll) == load(t, [i \in 1..Len(coll) |-> ShelterBBox(coll[i])])

\* new ShelterSpatialIndex(shelters)
NewIndex(coll) == [shelters |-> coll, tree |-> buildIndex(RBush, coll)]

null == [id |-> "null"]

\* searchRadii = [0.001, 0.002, 0.003] degrees
searchRadii == <<1 * DegMilli, 2 * DegMilli, 3 * DegMilli>>

\* the window of half-width radius (an angle) around (lat, lon)
Window(lat, lon, radius) ==
    [minX |-> lon - LonArc(radius), minY |-> lat - LatArc(radius),
     maxX |-> lon + LonArc(radius), maxY |-> lat + LatArc(radius)]

\* the loop "if (dist < minDist) { minDist = dist; nearest = candidate }"
RECURSIVE NearestAmong(_, _, _, _, _)
NearestAmong(candidates, lat, lon, nearest, minDist) ==
    IF candidates = <<>> THEN nearest
    ELSE LET c    == Head(candidates).shelter
             dist == haversineDistance(lat, lon, c.lat, c.lon)
         IN  IF dist < minDist
             THEN NearestAmong(Tail(candidates), lat, lon, c, dist)
             ELSE NearestAmong(Tail(candidates), lat, lon, nearest, minDist)

RECURSIVE NearestFrom(_, _, _, _)
NearestFrom(t, lat, lon, k) ==
    IF k > Len(searchRadii) THEN null
    ELSE LET candidates == search(t, Window(lat, lon, searchRadii[k]))
         IN  IF Len(candidates) > 0
             THEN NearestAmong(candidates, lat, lon, null, Infinity)
             ELSE NearestFrom(t, lat, lon, k + 1)

\* getNearestShelter whose loop stops before the last radius
getNearestShelter_TwoRadii(t, lat, lon) ==
    LET c1 == search(t, Window(lat, lon, searchRadii[1]))
        c2 == search(t, Window(lat, lon, searchRadii[2]))
    IN  IF Len(c1) > 0 THEN NearestAmong(c1, lat, lon, null, Infinity)
        ELSE IF Len(c2) > 0 THEN NearestAmong(c2, lat, lon, null, Infinity)
        ELSE null

getNearestShelter(t, lat, lon) == NearestFrom(t, lat, lon, 1)

\* getNearestShelterDistance that answers 0 when no shelter is found
getNearestShelterDistance_ZeroWhenNone(t, lat, lon) ==
    LET nearest == getNearestShelter(t, lat, lon)
    IN  IF nearest = null THEN 0
        ELSE haversineDistance(lat, lon, nearest.lat, nearest.lon)

\* Infinity when no shelter is found, else the distance of the nearest one
getNearestShelterDistance(t, lat, lon) ==
    LET nearest == getNearestShelter(t, lat, lon)
    IN  IF nearest = null THEN Infinity
        ELSE haversineDistance(lat, lon, nearest.lat, nearest.lon)

\* the shelters of the candidates, one per location
Shelters_OnePerLocation(candidates) ==
    LET first == SelectSeq([i \in 1..Len(candidates) |-> i], LAMBDA i :
                     \A j \in 1..(i - 1) :
                         \/ candidates[j].shelter.lat # candidates[i].shelter.lat
                         \/ candidates[j].shelter.lon # candidates[i].shelter.lon)
    IN  [k \in 1..Len(first) |-> candidates[first[k]].shelter]

\* .map(c => c.shelter)
Shelters(candidates) == [i \in 1..Len(candidates) |-> candidates[i].shelter]

\* getSheltersWithinRadius with the filter "distance < radiusMeters"
getSheltersWithinRadius_Strict(t, lat, lon, radiusMeters) ==
    LET candidates == search(t, Window(lat, lon, radiusMeters))
    IN  Shelters(SelectSeq(candidates, LAMBDA c :
            haversineDistance(lat, lon, c.shelter.lat, c.shelter.lon) < radiusMeters))

\* getSheltersWithinRadius with the comparison of the filter inverted
getSheltersWithinRadius_Inverted(t, lat, lon, radiusMeters) ==
    LET candidates == search(t, Window(lat, lon, radiusMeters))
    IN  Shelters(SelectSeq(candidates, LAMBDA c :
            haversineDistance(lat, lon, c.shelter.lat, c.shelter.lon) >= radiusMeters))

\* radiusMeters is in decimetres; radiusDegrees = radiusMeters / 111000
getSheltersWithinRadius(t, lat, lon, radiusMeters) ==
    LET radiusDegrees == radiusMeters
        candidates    == search(t, Window(lat, lon, radiusDegrees))
    IN  Shelters(SelectSeq(candidates, LAMBDA c :
            haversineDistance(lat, lon, c.shelter.lat, c.shelter.lon) <= radiusMeters))

\* ---------------------------------------------------------------- turf

\* turf.lineString(coordinates) throws unless given two positions or more
ValidLine(coords) == Len(coords) >= 2

\* some coordinate of a position of coords is NaN
HasNaN(coords) ==
    \E i \in 1..Len(coords) : coords[i][1] = NaN \/ coords[i][2] = NaN

\* if (result > x) result = x
Lower(result, x) == IF x # NaN /\ result > x THEN x ELSE result

\* if (result < x) result = x
Upper(result, x) == IF x # NaN /\ result < x THEN x ELSE result

\* turf.bbox(line): [minX, minY, maxX, maxY], from [Infinity, Infinity,
\* -Infinity, -Infinity] by one comparison per coordinate
RECURSIVE bbox(_)
bbox(coords) ==
    IF coords = <<>>
    THEN <<Infinity, Infinity, -Infinity, -Infinity>>
    ELSE LET b == bbox(Tail(coords))
             c == Head(coords)
         IN  <<Lower(b[1], c[1]), Lower(b[2], c[2]), Upper(b[3], c[1]), Upper(b[4], c[2])>>

\* squared distance from p to the segment a-b, rounded up: to the nearer end
\* when the projection of p falls outside the segment, else to the projection
segmentDistanceSq(p, a, b) ==
    LET abx == b[1] - a[1]
        aby == b[2] - a[2]
        apx == p[1] - a[1]
        apy == p[2] - a[2]
        ab2 == abx * abx + aby * aby
        ap2 == apx * apx + apy * apy
        dot == apx * abx + apy * aby
    IN  IF ab2 = 0 \/ dot <= 0 THEN ap2
        ELSE IF dot >= ab2 THEN haversineSq(p[2], p[1], b[2], b[1])
        ELSE ap2 - MulDiv(dot, dot, ab2)

\* turf.pointToLineDistance(point, line): the least distance to a segment,
\* from Infinity by "if (d < distance) distance = d", which a segment with a
\* NaN coordinate never passes
RECURSIVE pointToLineDistanceSq(_, _)
pointToLineDistanceSq(p, coords) ==
    LET d == IF HasNaN(SubSeq(coords, 1, 2)) THEN Infinity
             ELSE segmentDistanceSq(p, coords[1], coords[2])
    IN  IF Len(coords) = 2 THEN d
        ELSE Min2(d, pointToLineDistanceSq(p, Tail(coords)))

pointToLineDistance(p, coords) ==
    LET sq == pointToLineDistanceSq(p, coords)
    IN  IF IsFinite(sq) THEN Sqrt(sq) ELSE Infinity

\* turf.distance of two positions
distance(a, b) == haversineDistance(a[2], a[1], b[2], b[1])

\* turf.length(line): the sum of the segment lengths, NaN when a
\* coordinate is
RECURSIVE length(_)
length(coords) ==
    IF Len(coords) < 2 THEN 0
    ELSE IF HasNaN(SubSeq(coords, 1, 2)) \/ length(Tail(coords)) = NaN THEN NaN
    ELSE distance(coords[1], coords[2]) + length(Tail(coords))

\* the position at overshot (< 0) from coords[i], back towards coords[i-1]
Interpolated(from, to, back) ==
    LET seg == distance(from, to)
        dx  == to[1] - from[1]
        dy  == to[2] - from[2]
        mx  == MulDiv(Abs(dx), back, seg)
        my  == MulDiv(Abs(dy), back, seg)
    IN  <<from[1] + (IF dx < 0 THEN -mx ELSE mx),
          from[2] + (IF dy < 0 THEN -my ELSE my)>>

\* turf.along(line, dist): the loop over coords, from index i with
\* `travelled` covered so far
RECURSIVE alongFrom(_, _, _, _)
alongFrom(coords, dist, i, travelled) ==
    IF i > Len(coords) THEN coords[Len(coords)]
    ELSE IF dist >= travelled /\ i = Len(coords) THEN coords[Len(coords)]
    ELSE IF travelled >= dist
         THEN LET overshot == dist - travelled
              IN  IF overshot = 0 THEN coords[i]
                  ELSE Interpolated(coords[i], coords[i - 1], -overshot)
    ELSE alongFrom(coords, dist, i + 1, travelled + distance(coords[i], coords[i + 1]))

along(coords, dist) == alongFrom(coords, dist, 1, 0)

\* -------------------------------------------- getSheltersNearRoute

\* getSheltersNearRoute throws (out of turf.lineString)
getSheltersNearRouteThrows(geometry) == ~ValidLine(geometry.coordinates)

\* the search window of a route: its bounding box widened by bufferDegrees
RouteWindow(coords, bufferDegrees) ==
    LET box == bbox(coords)
    IN  [minX |-> box[1] - LonArc(bufferDegrees),
         minY |-> box[2] - LatArc(bufferDegrees),
         maxX |-> box[3] + LonArc(bufferDegrees),
         maxY |-> box[4] + LatArc(bufferDegrees)]

\* the filter calls turf.pointToLineDistance on a line with a NaN coordinate:
\* the builds of turf that measure through turf.point throw there
\* ("coordinates must contain numbers"), the others answer Infinity
getSheltersNearRouteMayThrow(t, geometry, corridorMeters) ==
    /\ ValidLine(geometry.coordinates)
    /\ HasNaN(geometry.coordinates)
    /\ search(t, RouteWindow(geometry.coordinates, corridorMeters)) # <<>>

\* getSheltersNearRoute without the filter by distance to the route
getSheltersNearRoute_Unfiltered(t, geometry, corridorMeters) ==
    LET box == bbox(geometry.coordinates)
    IN  Shelters(search(t,
            [minX |-> box[1] - LonArc(corridorMeters),
             minY |-> box[2] - LatArc(corridorMeters),
             maxX |-> box[3] + LonArc(corridorMeters),
             maxY |-> box[4] + LatArc(corridorMeters)]))

\* corridorMeters is in decimetres; bufferDegrees = corridorMeters / 111000
getSheltersNearRoute(t, geometry, corridorMeters) ==
    LET box           == bbox(geometry.coordinates)
        bufferDegrees == corridorMeters
        candidates    == search(t,
                            [minX |-> box[1] - LonArc(bufferDegrees),
                             minY |-> box[2] - LatArc(bufferDegrees),
                             maxX |-> box[3] + LonArc(bufferDegrees),
                             maxY |-> box[4] + LatArc(bufferDegrees)])
    IN  Shelters(SelectSeq(candidates, LAMBDA c :
            pointToLineDistance(<<c.shelter.lon, c.shelter.lat>>,
                                geometry.coordinates) <= corridorMeters))

\* ------------------------------------------------------------- routing

\* an ORSRoute: summary.distance in metres, summary.duration in seconds
ORSRoute(geometry, dist, duration) ==
    [geometry |-> geometry, summary |-> [distance |-> dist, duration |-> duration]]

\* the candidates the route source may return
Candidates ==
    { ORSRoute(LineString(<<Pos(0, -1000), Pos(0, 1000)>>), 200, 144),
      ORSRoute(LineString(<<Pos(0, 0), Pos(0, 1112), Pos(942, 1112)>>), 205, 148),
      ORSRoute(LineString(<<Pos(-600, 0), Pos(1200, 2400)>>), 300, 216),
      ORSRoute(LineString(<<Pos(0, 0), Pos(0, 4500)>>), 450, 324) }

RouteLists == UNION { Arrangements(Candidates, n) : n \in 0..MaxRoutes }

\* safetyWeight, in tenths
Weights == { 0, 5, 10 }

CeilDiv(a, b) == (a + b - 1) \div b

\* sampleCount = Math.max(10, Math.ceil(lengthKm * 1000 / 25)), NaN of NaN
sampleCountOf(lengthKm) ==
    IF lengthKm = NaN THEN NaN ELSE Max2(10, CeilDiv(lengthKm, 250))

\* samplePoints of the loop "for (i = 0; i < sampleCount; i++)"
samplePoints_EndLeftOut(coords) ==
    LET lengthKm    == length(coords)
        sampleCount == sampleCountOf(lengthKm)
    IN  [k \in 1..sampleCount |->
            along(coords, (lengthKm * (k - 1)) \div sampleCount)]

\* samplePoints: along(line, lengthKm * i / sampleCount) for i = 0..sampleCount;
\* the loop condition i <= sampleCount is false at once when sampleCount is NaN
samplePoints(coords) ==
    LET lengthKm    == length(coords)
        sampleCount == sampleCountOf(lengthKm)
    IN  IF sampleCount = NaN THEN <<>>
        ELSE [k \in 1..(sampleCount + 1) |->
                 along(coords, (lengthKm * (k - 1)) \div sampleCount)]

\* Math.min in the place of Math.max
RECURSIVE MathMax_Min(_)
MathMax_Min(ds) ==
    IF ds = <<>> THEN Infinity ELSE Min2(Head(ds), MathMax_Min(Tail(ds)))

\* Math.max(...distances); of no argument it is -Infinity
RECURSIVE MathMax(_)
MathMax(ds) ==
    IF ds = <<>> THEN -Infinity ELSE Max2(Head(ds), MathMax(Tail(ds)))

\* distances.reduce((a, b) => a + b, 0)
RECURSIVE Sum(_)
Sum(ds) == IF ds = <<>> THEN 0 ELSE Plus(Head(ds), Sum(Tail(ds)))

\* safetyScore without the clamp
safetyScoreOf_Unclamped(maxGapToShelter, avgDistanceToShelter, sheltersNearRoute) ==
    100000 - Min2(100000, Times(maxGapToShelter, 20))
           - Min2(50000, Times(avgDistanceToShelter, 25))
           + Min2(30000, sheltersNearRoute * 3000)

\* safetyScore with the bonus taken off
safetyScoreOf_BonusSubtracted(maxGapToShelter, avgDistanceToShelter, sheltersNearRoute) ==
    Max2(0, Min2(100000, 100000 - Min2(100000, Times(maxGapToShelter, 20))
                                - Min2(50000, Times(avgDistanceToShelter, 25))
                                - Min2(30000, sheltersNearRoute * 3000)))

\* safetyScore with the bonus added after the clamp
safetyScoreOf_BonusAfterClamp(maxGapToShelter, avgDistanceToShelter, sheltersNearRoute) ==
    Max2(0, Min2(100000, 100000 - Min2(100000, Times(maxGapToShelter, 20))
                                - Min2(50000, Times(avgDistanceToShelter, 25))))
        + Min2(30000, sheltersNearRoute * 3000)

\* safetyScore, in thousandths of a point, from maxGapToShelter and
\* avgDistanceToShelter (decimetres) and sheltersNearRoute; of a NaN
\* avgDistanceToShelter, Math.min(50, NaN) and all that follows are NaN
safetyScoreOf(maxGapToShelter, avgDistanceToShelter, sheltersNearRoute) ==
    LET gapPenalty   == Min2(100000, Times(maxGapToShelter, 20))
        avgPenalty   == Min2(50000, Times(avgDistanceToShelter, 25))
        shelterBonus == Min2(30000, sheltersNearRoute * 3000)
    IN  IF avgDistanceToShelter = NaN THEN NaN
        ELSE Max2(0, Min2(100000, 100000 - gapPenalty - avgPenalty + shelterBonus))

\* the metrics of a route from its per-sample distances; distanceKm is kept
\* in metres and durationMinutes in seconds
metricsOf(distances, sheltersNearRoute, distanceMeters, durationSeconds) ==
    LET maxGapToShelter      == MathMax(distances)
        avgDistanceToShelter == Over(Sum(distances), Len(distances))
    IN  [distanceKm           |-> distanceMeters,
         durationMinutes      |-> durationSeconds,
         maxGapToShelter      |-> maxGapToShelter,
         avgDistanceToShelter |-> avgDistanceToShelter,
         sheltersNearRoute    |-> sheltersNearRoute,
         safetyScore          |-> safetyScoreOf(maxGapToShelter,
                                     avgDistanceToShelter, sheltersNearRoute)]

\* the per-sample distances to the nearest shelter
sampleDistances(t, coords) ==
    LET pts == samplePoints(coords)
    IN  [k \in 1..Len(pts) |-> getNearestShelterDistance(t, pts[k][2], pts[k][1])]

\* calculateRouteMetrics throws (out of turf.lineString)
calculateRouteMetricsThrows(geometry) == ~ValidLine(geometry.coordinates)

\* calculateRouteMetrics counting in the 200 m corridor of the display
calculateRouteMetrics_DisplayCorridor(geometry, distanceMeters, durationSeconds, t) ==
    metricsOf(sampleDistances(t, geometry.coordinates),
              Len(getSheltersNearRoute(t, geometry, 2000)),
              distanceMeters, durationSeconds)

calculateRouteMetrics(geometry, distanceMeters, durationSeconds, t) ==
    metricsOf(sampleDistances(t, geometry.coordinates),
              Len(getSheltersNearRoute(t, geometry, 1500)),
              distanceMeters, durationSeconds)

\* combined score with the weight on the distance instead of the risk
calculateCombinedScore_WeightOnDistance(metrics, safetyWeight) ==
    LET normalizedDistance == metrics.distanceKm * 10
        normalizedRisk     == 100000 - metrics.safetyScore
    IN  safetyWeight * normalizedDistance + (10 - safetyWeight) * normalizedRisk

\* combined score (lower is better), in millionths; NaN of a NaN safetyScore
calculateCombinedScore(metrics, safetyWeight) ==
    LET normalizedDistance == metrics.distanceKm * 10
        normalizedRisk     == 100000 - metrics.safetyScore
    IN  IF metrics.safetyScore = NaN THEN NaN
        ELSE (10 - safetyWeight) * normalizedDistance + safetyWeight * normalizedRisk

\* the element scoreAndRankRoutes maps one ORSRoute to
scoreRoute(orsRoute, t) ==
    LET geometry == LineString(orsRoute.geometry.coordinates)
        metrics  == calculateRouteMetrics(geometry, orsRoute.summary.distance,
                                          orsRoute.summary.duration, t)
    IN  [geometry       |-> geometry,
         metrics        |-> metrics,
         nearbyShelters |-> getSheltersNearRoute(t, geometry, 2000)]

\* the mapping of orsRoute throws
scoreRouteThrows(orsRoute) ==
    calculateRouteMetricsThrows(LineString(orsRoute.geometry.coordinates))

\* a sort with compare(a, b) = scoreB - scoreA
RECURSIVE InsertSorted_Descending(_, _, _)
InsertSorted_Descending(sorted, r, safetyWeight) ==
    IF sorted = <<>> THEN <<r>>
    ELSE IF calculateCombinedScore(Head(sorted).metrics, safetyWeight)
              - calculateCombinedScore(r.metrics, safetyWeight) < 0
         THEN <<r>> \o sorted
         ELSE <<Head(sorted)>> \o InsertSorted_Descending(Tail(sorted), r, safetyWeight)

\* a sort that puts a route before the routes of equal score
RECURSIVE InsertSorted_Unstable(_, _, _)
InsertSorted_Unstable(sorted, r, safetyWeight) ==
    IF sorted = <<>> THEN <<r>>
    ELSE IF calculateCombinedScore(r.metrics, safetyWeight)
              - calculateCombinedScore(Head(sorted).metrics, safetyWeight) <= 0
         THEN <<r>> \o sorted
         ELSE <<Head(sorted)>> \o InsertSorted_Unstable(Tail(sorted), r, safetyWeight)

\* scoreA - scoreB
Minus(scoreA, scoreB) ==
    IF scoreA = NaN \/ scoreB = NaN THEN NaN ELSE scoreA - scoreB

\* the sort takes v for negative; it takes a NaN from compare for +0
Negative(v) == v # NaN /\ v < 0

\* the mapping of orsRoute may throw, out of either getSheltersNearRoute
scoreRouteMayThrow(orsRoute, t) ==
    LET geometry == LineString(orsRoute.geometry.coordinates)
    IN  \/ getSheltersNearRouteMayThrow(t, geometry, 1500)
        \/ getSheltersNearRouteMayThrow(t, geometry, 2000)

\* Array.prototype.sort with compare(a, b) = scoreA - scoreB: stable
RECURSIVE InsertSorted(_, _, _)
InsertSorted(sorted, r, safetyWeight) ==
    IF sorted = <<>> THEN <<r>>
    ELSE IF Negative(Minus(calculateCombinedScore(r.metrics, safetyWeight),
                           calculateCombinedScore(Head(sorted).metrics, safetyWeight)))
         THEN <<r>> \o sorted
         ELSE <<Head(sorted)>> \o InsertSorted(Tail(sorted), r, safetyWeight)

\* the sort of the routes of a positive safetyScore only
RECURSIVE sortByCombinedScore_Filtered(_, _)
sortByCombinedScore_Filtered(scoredRoutes, safetyWeight) ==
    IF scoredRoutes = <<>> THEN <<>>
    ELSE LET rest == sortByCombinedScore_Filtered(
                         SubSeq(scoredRoutes, 1, Len(scoredRoutes) - 1), safetyWeight)
             r    == scoredRoutes[Len(scoredRoutes)]
         IN  IF r.metrics.safetyScore > 0
             THEN InsertSorted(rest, r, safetyWeight)
             ELSE rest

RECURSIVE sortByCombinedScore(_, _)
sortByCombinedScore(scoredRoutes, safetyWeight) ==
    IF scoredRoutes = <<>> THEN <<>>
    ELSE InsertSorted(
             sortByCombinedScore(SubSeq(scoredRoutes, 1, Len(scoredRoutes) - 1),
                                 safetyWeight),
             scoredRoutes[Len(scoredRoutes)], safetyWeight)

\* scoreAndRankRoutes on an index that no call changes meanwhile
scoreAndRankRoutes(orsRoutes, t, safetyWeight) ==
    LET scoredRoutes == [i \in 1..Len(orsRoutes) |-> scoreRoute(orsRoutes[i], t)]
    IN  sortByCombinedScore(scoredRoutes, safetyWeight)

scoreAndRankRoutesThrows(orsRoutes) ==
    \E i \in 1..Len(orsRoutes) : scoreRouteThrows(orsRoutes[i])

\* ------------------------------------------------------- the program

VARIABLES
    shelters,   \* ShelterSpatialIndex.shelters: the backing collection
    tree,       \* ShelterSpatialIndex.tree
    upd,        \* the updateShelters call under way, or [pc |-> "idle"]
    pass,       \* the scoreAndRankRoutes call under way, or [pc |-> "idle"]
    last,       \* the latest call: its operation, argument and return value
    home,       \* the state of the page component Home, once mounted
    fetching    \* the fetchAllShelters call under way, or [pc |-> "idle"]

vars == <<shelters, tree, upd, pass, last, home, fetching>>

\* no page component is mounted
Unmounted == [mounted |-> FALSE]

Idle == [pc |-> "idle"]

\* status is "running", "returned" or "threw"; ret is the value returned;
\* pre is the collection an updateShelters call found
Call(op, arg, status, ret, pre) ==
    [op |-> op, arg |-> arg, status |-> status, ret |-> ret, pre |-> pre]

\* the index under construction by new ShelterSpatialIndex(coll)
Init ==
    \E coll \in Collections :
        /\ shelters = NewIndex(coll).shelters
        /\ tree = NewIndex(coll).tree
        /\ upd = Idle
        /\ pass = Idle
        /\ last = Call("new", coll, "returned", "index", <<>>)
        /\ home = Unmounted
        /\ fetching = Idle

\* calls that could start while another call is suspended
NoCallRunning_Async(u, p) == TRUE

\* updateShelters and scoreAndRankRoutes are synchronous functions: a call
\* starts only when no other call is on the stack, and runs to its return
NoCallRunning(u, p) == u.pc = "idle" /\ p.pc = "idle"

\* updateShelters that leaves the index it is applied to as it was
UpdateSheltersAssign_Copy(coll) ==
    /\ upd.pc = "idle" /\ pass.pc = "idle"
    /\ upd' = [pc |-> "clear", old |-> shelters]
    /\ last' = Call("updateShelters", coll, "running", "none", shelters)
    /\ UNCHANGED <<shelters, tree, pass>>
    /\ UNCHANGED <<home, fetching>>

\* updateShelters(coll): this.shelters = shelters
UpdateSheltersAssign(coll) ==
    /\ NoCallRunning(upd, pass)
    /\ shelters' = coll
    /\ upd' = [pc |-> "clear", old |-> shelters]
    /\ last' = Call("updateShelters", coll, "running", "none", shelters)
    /\ UNCHANGED <<tree, pass>>
    /\ UNCHANGED <<home, fetching>>

\* updateShelters: this.tree.clear()
UpdateSheltersClear ==
    /\ upd.pc = "clear"
    /\ tree' = clear(tree)
    /\ upd' = [upd EXCEPT !.pc = "build"]
    /\ UNCHANGED <<shelters, pass, last>>
    /\ UNCHANGED <<home, fetching>>

\* updateShelters: this.buildIndex(), and the return of undefined
UpdateSheltersBuild ==
    /\ upd.pc = "build"
    /\ tree' = buildIndex(tree, shelters)
    /\ upd' = Idle
    /\ last' = [last EXCEPT !.status = "returned", !.ret = "undefined"]
    /\ UNCHANGED <<shelters, pass>>
    /\ UNCHANGED <<home, fetching>>

\* getNearestShelter that moves the entry it found to the front of the tree
GetNearestShelter_MoveToFront(p) ==
    /\ NoCallRunning(upd, pass)
    /\ last' = Call("getNearestShelter", p, "returned",
                    getNearestShelter(tree, p.lat, p.lon), <<>>)
    /\ tree' = SelectSeq(tree, LAMBDA item : item.shelter = last'.ret)
                   \o SelectSeq(tree, LAMBDA item : item.shelter # last'.ret)
    /\ UNCHANGED <<shelters, upd, pass>>
    /\ UNCHANGED <<home, fetching>>

GetNearestShelter(p) ==
    /\ NoCallRunning(upd, pass)
    /\ last' = Call("getNearestShelter", p, "returned",
                    getNearestShelter(tree, p.lat, p.lon), <<>>)
    /\ UNCHANGED <<shelters, tree, upd, pass>>
    /\ UNCHANGED <<home, fetching>>

GetNearestShelterDistance(p) ==
    /\ NoCallRunning(upd, pass)
    /\ last' = Call("getNearestShelterDistance", p, "returned",
                    getNearestShelterDistance(tree, p.lat, p.lon), <<>>)
    /\ UNCHANGED <<shelters, tree, upd, pass>>
    /\ UNCHANGED <<home, fetching>>

GetSheltersWithinRadius(p, r) ==
    /\ NoCallRunning(upd, pass)
    /\ last' = Call("getSheltersWithinRadius", <<p, r>>, "returned",
                    getSheltersWithinRadius(tree, p.lat, p.lon, r), <<>>)
    /\ UNCHANGED <<shelters, tree, upd, pass>>
    /\ UNCHANGED <<home, fetching>>

GetSheltersNearRoute(g, c) ==
    /\ NoCallRunning(upd, pass)
    /\ \/ /\ getSheltersNearRouteThrows(g) \/ getSheltersNearRouteMayThrow(tree, g, c)
          /\ last' = Call("getSheltersNearRoute", <<g, c>>, "threw", <<>>, <<>>)
       \/ /\ ~getSheltersNearRouteThrows(g)
          /\ last' = Call("getSheltersNearRoute", <<g, c>>, "returned",
                          getSheltersNearRoute(tree, g, c), <<>>)
    /\ UNCHANGED <<shelters, tree, upd, pass>>
    /\ UNCHANGED <<home, fetching>>

\* scoreAndRankRoutes(orsRoutes, spatialIndex, safetyWeight): the call
ScoreStart(orsRoutes, safetyWeight) ==
    /\ NoCallRunning(upd, pass)
    /\ pass' = [pc |-> "map", orsRoutes |-> orsRoutes, safetyWeight |-> safetyWeight,
                scoredRoutes |-> <<>>, seen |-> {}]
    /\ last' = Call("scoreAndRankRoutes", <<orsRoutes, safetyWeight>>,
                    "running", <<>>, <<>>)
    /\ UNCHANGED <<shelters, tree, upd>>
    /\ UNCHANGED <<home, fetching>>

\* orsRoutes.map: the metrics and the nearby shelters of the next route, read
\* from the index as it is at this step
ScoreMap ==
    /\ pass.pc = "map"
    /\ Len(pass.scoredRoutes) < Len(pass.orsRoutes)
    /\ LET orsRoute == pass.orsRoutes[Len(pass.scoredRoutes) + 1]
       IN  \/ /\ scoreRouteThrows(orsRoute) \/ scoreRouteMayThrow(orsRoute, tree)
              /\ pass' = Idle
              /\ last' = [last EXCEPT !.status = "threw"]
           \/ /\ ~scoreRouteThrows(orsRoute)
              /\ pass' = [pass EXCEPT
                     !.scoredRoutes = Append(@, scoreRoute(orsRoute, tree)),
                     !.seen = @ \cup {[shelters |-> shelters, tree |-> tree]}]
              /\ UNCHANGED last
    /\ UNCHANGED <<shelters, tree, upd>>
    /\ UNCHANGED <<home, fetching>>

\* scoredRoutes.sort, and the return
ScoreSort ==
    /\ pass.pc = "map"
    /\ Len(pass.scoredRoutes) = Len(pass.orsRoutes)
    /\ pass' = Idle
    /\ last' = [last EXCEPT
           !.status = "returned",
           !.ret = sortByCombinedScore(pass.scoredRoutes, pass.safetyWeight)]
    /\ UNCHANGED <<shelters, tree, upd>>
    /\ UNCHANGED <<home, fetching>>

Next ==
    \/ \E coll \in Collections : UpdateSheltersAssign(coll)
    \/ UpdateSheltersClear
    \/ UpdateSheltersBuild
    \/ \E p \in QueryPoints : GetNearestShelter(p)
    \/ \E p \in QueryPoints : GetNearestShelterDistance(p)
    \/ \E p \in QueryPoints, r \in Radii : GetSheltersWithinRadius(p, r)
    \/ \E g \in Geometries, c \in Radii : GetSheltersNearRoute(g, c)
    \/ \E orsRoutes \in RouteLists, w \in Weights : ScoreStart(orsRoutes, w)
    \/ ScoreMap
    \/ ScoreSort

Spec == Init /\ [][Next]_vars

\* ------------------------------------------------ malformed polylines

\* a polyline of the contract has two positions or more, and no NaN
Malformed(coords) == Len(coords) < 2 \/ HasNaN(coords)

\* polylines of a route source amiss: of one position, with a NaN longitude,
\* and a well-formed one
SuspectGeometries ==
    { LineString(<<Pos(0, 0)>>),
      LineString(<<Pos(NaN, 0), Pos(0, 1000)>>),
      LineString(<<Pos(0, -1000), Pos(0, 1000)>>) }

SuspectCandidates == { ORSRoute(g, 200, 144) : g \in SuspectGeometries }

SuspectLists == UNION { Arrangements(SuspectCandidates, n) : n \in 0..MaxRoutes }

\* the program, given these polylines
NextGeometry ==
    \/ \E coll \in Collections : UpdateSheltersAssign(coll)
    \/ UpdateSheltersClear
    \/ UpdateSheltersBuild
    \/ \E g \in SuspectGeometries, c \in Radii : GetSheltersNearRoute(g, c)
    \/ \E orsRoutes \in SuspectLists, w \in Weights : ScoreStart(orsRoutes, w)
    \/ ScoreMap
    \/ ScoreSort

SpecGeometry == Init /\ [][NextGeometry]_vars

\* ------------------------------------------ metrics of given distances

\* bounds of the inputs of metricsOf
MaxSamples == 3

MaxNear == 11

\* per-sample distances: at a shelter, 40 m, 260 m, 600 m, no shelter found
SampleDistances == { 0, 400, 2600, 6000, Infinity }

RECURSIVE Tuples(_, _)
Tuples(S, n) ==
    IF n = 0 THEN { <<>> }
    ELSE { Append(a, x) : a \in Tuples(S, n - 1), x \in S }

DistanceLists == UNION { Tuples(SampleDistances, n) : n \in 1..MaxSamples }

\* the inputs: a list of per-sample distances and a count of shelters near
InitMetrics ==
    \E ds \in DistanceLists, n \in 0..MaxNear :
        /\ shelters = <<>>
        /\ tree = RBush
        /\ upd = Idle
        /\ pass = Idle
        /\ last = Call("input", <<ds, n>>, "returned", "none", <<>>)
        /\ home = Unmounted
        /\ fetching = Idle

\* lines 157-176 of calculateRouteMetrics on these inputs
MetricsApply ==
    /\ last.op = "input"
    /\ last' = Call("metricsOf", last.arg, "returned",
                    metricsOf(last.arg[1], last.arg[2], 200, 144), <<>>)
    /\ UNCHANGED <<shelters, tree, upd, pass>>
    /\ UNCHANGED <<home, fetching>>

NextMetrics == MetricsApply

SpecMetrics == InitMetrics /\ [][NextMetrics]_vars

\* ------------------------------------------- sampling of given polylines

\* bound of the number of vertices of a polyline
MaxVertices == 3

\* vertices of polylines, up to 450 m apart
Vertices ==
    { Pos(0, 0), Pos(0, 1112), Pos(942, 1112), Pos(1200, 2400), Pos(0, 4500) }

Polylines == UNION { Tuples(Vertices, n) : n \in 2..MaxVertices }

\* the input: the coordinates of a route geometry
InitSampler ==
    \E coords \in Polylines :
        /\ shelters = <<>>
        /\ tree = RBush
        /\ upd = Idle
        /\ pass = Idle
        /\ last = Call("line", coords, "returned", "none", <<>>)
        /\ home = Unmounted
        /\ fetching = Idle

\* lines 141-150 of calculateRouteMetrics on this input
SamplerApply ==
    /\ last.op = "line"
    /\ last' = Call("samplePoints", last.arg, "returned", samplePoints(last.arg), <<>>)
    /\ UNCHANGED <<shelters, tree, upd, pass>>
    /\ UNCHANGED <<home, fetching>>

NextSampler == SamplerApply

SpecSampler == InitSampler /\ [][NextSampler]_vars

\* ------------------------------------------- ranking of given metrics

\* bound of the number of scored routes to sort
MaxRanked == 2

\* distanceKm of a scored route, in metres
RankedDistances == { 1000, 1800, 2000 }

\* safetyScore of a scored route, in thousandths
RankedScores == { 0, 40000, 90000, 100000 }

\* safetyWeight, in tenths, as the slider of the page gives it
RankWeights == 0..10

\* the k-th element of scoredRoutes; geometry stands for the k-th polyline
Scored(k, distanceMeters, safetyScore) ==
    [geometry |-> k,
     metrics  |-> [distanceKm |-> distanceMeters, safetyScore |-> safetyScore]]

RECURSIVE ScoredLists(_)
ScoredLists(n) ==
    IF n = 0 THEN { <<>> }
    ELSE { Append(a, Scored(n, d, sc)) :
               a \in ScoredLists(n - 1), d \in RankedDistances, sc \in RankedScores }

\* the inputs: the scoredRoutes that orsRoutes.map produced, and a weight
InitRank ==
    \E n \in 0..MaxRanked : \E scoredRoutes \in ScoredLists(n) : \E w \in RankWeights :
        /\ shelters = <<>>
        /\ tree = RBush
        /\ upd = Idle
        /\ pass = Idle
        /\ last = Call("scored", <<scoredRoutes, w>>, "returned", "none", <<>>)
        /\ home = Unmounted
        /\ fetching = Idle

\* lines 124-128 of scoreAndRankRoutes on these inputs
RankApply ==
    /\ last.op = "scored"
    /\ last' = Call("sort", last.arg, "returned",
                    sortByCombinedScore(last.arg[1], last.arg[2]), <<>>)
    /\ UNCHANGED <<shelters, tree, upd, pass>>
    /\ UNCHANGED <<home, fetching>>

NextRank == RankApply

SpecRank == InitRank /\ [][NextRank]_vars

\* ------------------------------------------------- fetchAllShelters

\* bound of the number of full pages a city serves
MaxPages == 2

\* records per page, scaled down from 2000 and 5000
TEL_AVIV_PAGE_SIZE == 2

JERUSALEM_PAGE_SIZE == 3

Cities == { "tel-aviv", "jerusalem" }

PageSize(city) == IF city = "tel-aviv" THEN TEL_AVIV_PAGE_SIZE ELSE JERUSALEM_PAGE_SIZE

\* what a request of a page ends with: a page of PAGE_SIZE records, a page
\* of one record, a page of none, or an error (fetch rejects, response not
\* ok, json rejects, success false)
Responses == { "full", "short", "empty", "failed" }

\* the records of the page at offset; the coordinates of every third
\* record do not parse
Records(city, offset, kind) ==
    LET n == IF kind = "full" THEN PageSize(city)
             ELSE IF kind = "short" THEN 1 ELSE 0
    IN  [i \in 1..n |-> [city |-> city, n |-> offset + i,
                         valid |-> (offset + i) % 3 # 0]]

telAvivFeatureToShelter(feature) == [id |-> feature.n, city |-> "tel-aviv"]

\* the null of jerusalemRecordToShelter
NoShelter == [id |-> 0, city |-> "null"]

jerusalemRecordToShelter(record) ==
    IF record.valid THEN [id |-> record.n, city |-> "jerusalem"] ELSE NoShelter

\* the value a city's fetch returns once its loop has ended
Converted(city, all) ==
    IF city = "tel-aviv"
    THEN [i \in 1..Len(all) |-> telAvivFeatureToShelter(all[i])]
    ELSE SelectSeq([i \in 1..Len(all) |-> jerusalemRecordToShelter(all[i])],
                   LAMBDA shelter : shelter # NoShelter)

\* a city's fetch at its start: nothing gathered, offset 0; log lists the
\* responses it got
CityStart == [pc |-> "fetching", all |-> <<>>, offset |-> 0, log |-> <<>>]

\* .catch that returns the shelters of the pages gathered before the error
Caught_PartialPages(city, c) == Converted(city, c.all)

\* fetchCity().catch(error => []): the value a settled city gives Promise.all
Caught(city, c) ==
    IF c.pc = "rejected" THEN <<>> ELSE Converted(city, c.all)

\* fetchAllShelters(): both cities start fetching
FetchAllShelters ==
    /\ fetching.pc = "idle"
    /\ fetching' = [pc |-> "awaiting",
                    cities |-> [city \in Cities |-> CityStart]]
    /\ UNCHANGED <<shelters, tree, upd, pass, last, home>>

\* one turn of the while loop of a city, from the response to its request
PageArrives(city, kind) ==
    /\ fetching.pc = "awaiting"
    /\ fetching.cities[city].pc = "fetching"
    /\ kind = "full" => Len(fetching.cities[city].log) < MaxPages
    /\ LET c    == fetching.cities[city]
           data == Records(city, c.offset, kind)
       IN  fetching' = [fetching EXCEPT !.cities[city] =
               IF kind = "failed"
               THEN [c EXCEPT !.pc = "rejected", !.log = Append(@, kind)]
               ELSE IF Len(data) > 0
               THEN [pc     |-> IF Len(data) < PageSize(city)
                                THEN "fulfilled" ELSE "fetching",
                     all    |-> c.all \o data,
                     offset |-> c.offset + PageSize(city),
                     log    |-> Append(c.log, kind)]
               ELSE [c EXCEPT !.pc = "fulfilled", !.log = Append(@, kind)]]
    /\ UNCHANGED <<shelters, tree, upd, pass, last, home>>

\* Promise.all settles, and fetchAllShelters returns the two lists merged
FetchSettles ==
    /\ fetching.pc = "awaiting"
    /\ \A city \in Cities : fetching.cities[city].pc # "fetching"
    /\ fetching' = [fetching EXCEPT !.pc = "resolved"]
    /\ last' = Call("fetchAllShelters", <<>>, "returned",
                    Caught("tel-aviv", fetching.cities["tel-aviv"])
                        \o Caught("jerusalem", fetching.cities["jerusalem"]), <<>>)
    /\ UNCHANGED <<shelters, tree, upd, pass, home>>

InitFetch ==
    /\ shelters = <<>>
    /\ tree = RBush
    /\ upd = Idle
    /\ pass = Idle
    /\ last = Call("none", <<>>, "returned", "none", <<>>)
    /\ home = Unmounted
    /\ fetching = Idle

NextFetch ==
    \/ FetchAllShelters
    \/ \E city \in Cities, kind \in Responses : PageArrives(city, kind)
    \/ FetchSettles

SpecFetch == InitFetch /\ [][NextFetch]_vars

\* ------------------------------------------------- the page component

\* bounds of the numbers of map clicks and of route computations started
MaxClicks == 2

MaxComputations == 2

\* a RoutePoint by where it comes from, and null
NoPoint == [by |-> "null", n |-> 0]

RoutePoint(by, n) == [by |-> by, n |-> n]

\* Home once mounted and the shelters loaded: origin, destination and
\* routeLoading are state, originRef and destinationRef the refs the effects
\* keep in sync with it; clicks are the map click handlers that wait for
\* reverseGeocode, computations the handleSearch and routeToShelter calls
\* that have not finished; geolocation is whether the browser has
\* navigator.geolocation, userLocation whether watchPosition has reported
Mounted(geolocation) ==
    [mounted        |-> TRUE,
     geolocation    |-> geolocation,
     userLocation   |-> FALSE,
     routeLoading   |-> FALSE,
     origin         |-> NoPoint,
     destination    |-> NoPoint,
     originRef      |-> NoPoint,
     destinationRef |-> NoPoint,
     clicks         |-> {},
     clicked        |-> 0,
     computations   |-> {},
     started        |-> 0]

\* watchPosition reports a position: setUserLocation
WatchPosition ==
    /\ home.geolocation /\ ~home.userLocation
    /\ home' = [home EXCEPT !.userLocation = TRUE]
    /\ UNCHANGED <<shelters, tree, upd, pass, last, fetching>>

\* map.on('click'): the branch is chosen from the refs, before the await
MapClick ==
    /\ home.clicked < MaxClicks
    /\ LET n == home.clicked + 1
       IN  home' = [home EXCEPT
               !.clicked = n,
               !.clicks = IF home.originRef = NoPoint
                          THEN @ \cup {[n |-> n, sets |-> "origin"]}
                          ELSE IF home.destinationRef = NoPoint
                          THEN @ \cup {[n |-> n, sets |-> "destination"]}
                          ELSE @]
    /\ UNCHANGED <<shelters, tree, upd, pass, last, fetching>>

\* reverseGeocode of a click resolves (it never rejects): setOrigin or
\* setDestination
ClickGeocoded(c) ==
    /\ c \in home.clicks
    /\ home' = [home EXCEPT
           !.clicks = @ \ {c},
           !.origin = IF c.sets = "origin" THEN RoutePoint("click", c.n) ELSE @,
           !.destination = IF c.sets = "destination"
                           THEN RoutePoint("click", c.n) ELSE @]
    /\ UNCHANGED <<shelters, tree, upd, pass, last, fetching>>

\* the effects after a render: originRef.current = origin,
\* destinationRef.current = destination
SyncRefs ==
    /\ home.originRef # home.origin \/ home.destinationRef # home.destination
    /\ home' = [home EXCEPT !.originRef = home.origin,
                            !.destinationRef = home.destination]
    /\ UNCHANGED <<shelters, tree, upd, pass, last, fetching>>

\* handleSearch, from the button that routeLoading disables
HandleSearch ==
    /\ home.started < MaxComputations
    /\ ~home.routeLoading
    /\ home.origin # NoPoint /\ home.destination # NoPoint
    /\ home' = [home EXCEPT
           !.routeLoading = TRUE,
           !.started = @ + 1,
           !.computations = @ \cup {[n |-> home.started + 1, pc |-> "routes"]}]
    /\ UNCHANGED <<shelters, tree, upd, pass, last, fetching>>

\* routeToShelter, from a shelter popup or from handleSOS: userLocation is
\* known, or the browser has no geolocation, or the position is asked of it
RouteToShelter ==
    /\ home.started < MaxComputations
    /\ home' = [home EXCEPT
           !.routeLoading = (home.userLocation \/ home.geolocation),
           !.started = @ + 1,
           !.computations =
               IF home.userLocation
               THEN @ \cup {[n |-> home.started + 1, pc |-> "geocode"]}
               ELSE IF ~home.geolocation
               THEN @
               ELSE @ \cup {[n |-> home.started + 1, pc |-> "locate"]}]
    /\ UNCHANGED <<shelters, tree, upd, pass, last, fetching>>

\* getCurrentPosition calls back: with a position, or with an error
Located(c, found) ==
    /\ c \in home.computations /\ c.pc = "locate"
    /\ home' = IF found
               THEN [home EXCEPT !.computations =
                        (@ \ {c}) \cup {[c EXCEPT !.pc = "geocode"]}]
               ELSE [home EXCEPT !.computations = @ \ {c},
                                 !.routeLoading = FALSE]
    /\ UNCHANGED <<shelters, tree, upd, pass, last, fetching>>

\* calculateRoute: reverseGeocode resolves, setOrigin and setDestination
Geocoded(c) ==
    /\ c \in home.computations /\ c.pc = "geocode"
    /\ home' = [home EXCEPT
           !.computations = (@ \ {c}) \cup {[c EXCEPT !.pc = "routes"]},
           !.origin = RoutePoint("location", c.n),
           !.destination = RoutePoint("shelter", c.n)]
    /\ UNCHANGED <<shelters, tree, upd, pass, last, fetching>>

\* getWalkingRoutes settles, with routes, with none or with an error: the
\* finally block
RoutesSettled(c) ==
    /\ c \in home.computations /\ c.pc = "routes"
    /\ home' = [home EXCEPT !.computations = @ \ {c},
                            !.routeLoading = FALSE]
    /\ UNCHANGED <<shelters, tree, upd, pass, last, fetching>>

InitHome ==
    /\ shelters = <<>>
    /\ tree = RBush
    /\ upd = Idle
    /\ pass = Idle
    /\ last = Call("none", <<>>, "returned", "none", <<>>)
    /\ \E geolocation \in BOOLEAN : home = Mounted(geolocation)
    /\ fetching = Idle

NextHome ==
    \/ WatchPosition
    \/ MapClick
    \/ \E c \in home.clicks : ClickGeocoded(c)
    \/ SyncRefs
    \/ HandleSearch
    \/ RouteToShelter
    \/ \E c \in home.computations, found \in BOOLEAN : Located(c, found)
    \/ \E c \in home.computations : Geocoded(c)
    \/ \E c \in home.computations : RoutesSettled(c)

SpecHome == InitHome /\ [][NextHome]_vars

\* ---------------------------------------------------------- the claims

Range(seq) == { seq[i] : i \in 1..Len(seq) }

\* the number of positions of seq holding x
Count(seq, x) == Cardinality({ i \in 1..Len(seq) : seq[i] = x })

\* s lies in the square window of half-width radius (an angle) around p
InSquare(s, p, radius) ==
    /\ Abs(s.lon - p.lon) * DegMilli <= radius * LonMilli
    /\ Abs(s.lat - p.lat) * DegMilli <= radius * LatMilli

\* the tree holds one point entry per element of coll and nothing else
InStep(t, coll) ==
    /\ Len(t) = Len(coll)
    /\ \A s \in Range(coll) \cup { t[i].shelter : i \in 1..Len(t) } :
           Count([i \in 1..Len(t) |-> t[i].shelter], s) = Count(coll, s)
    /\ \A i \in 1..Len(t) :
           /\ t[i].minX = t[i].shelter.lon /\ t[i].maxX = t[i].shelter.lon
           /\ t[i].minY = t[i].shelter.lat /\ t[i].maxY = t[i].shelter.lat

Queries == { "getNearestShelter", "getNearestShelterDistance",
             "getSheltersWithinRadius", "getSheltersNearRoute" }

\* the answer of query op with argument arg on tree t
Answer(op, arg, t) ==
    CASE op = "getNearestShelter" -> getNearestShelter(t, arg.lat, arg.lon)
      [] op = "getNearestShelterDistance" -> getNearestShelterDistance(t, arg.lat, arg.lon)
      [] op = "getSheltersWithinRadius" ->
             getSheltersWithinRadius(t, arg[1].lat, arg[1].lon, arg[2])
      [] op = "getSheltersNearRoute" -> getSheltersNearRoute(t, arg[1], arg[2])

Returned == last.status = "returned"

\* C1, as claimed: getNearestShelter returns a member of the collection or
\* none, and none if and only if the collection is empty.
C1_NoneIffEmpty ==
    last.op = "getNearestShelter" =>
        /\ Returned
        /\ last.ret \in Range(shelters) \cup {null}
        /\ (last.ret = null) <=> (shelters = <<>>)

\* C1, amended: getNearestShelter returns a member of the collection or none,
\* and none if and only if no shelter of the collection lies in the square
\* window of 0.003 degrees around the query point (so always when the
\* collection is empty).
C1_NoneIffNoShelterInWindow ==
    last.op = "getNearestShelter" =>
        /\ Returned
        /\ last.ret \in Range(shelters) \cup {null}
        /\ (last.ret = null) <=>
               (\A s \in Range(shelters) : ~InSquare(s, last.arg, 3 * DegMilli))
        /\ (shelters = <<>>) => (last.ret = null)

\* C1 witness: none returned on a collection that is not empty
C1_Witness ==
    /\ last.op = "getNearestShelter"
    /\ shelters # <<>>
    /\ last.ret = null

\* C2: whenever no updateShelters call is under way (after construction and
\* after every updateShelters), the tree holds exactly one leaf entry per
\* element of the backing collection and no other entry, and every step of a
\* scoring pass saw them so.
C2_TreeInStepWithCollection ==
    /\ upd.pc = "idle" => InStep(tree, shelters)
    /\ pass.pc = "map" => \A x \in pass.seen : InStep(x.tree, x.shelters)

\* C2 witness: an updateShelters call has replaced a non-empty collection by
\* another non-empty one
C2_Witness ==
    /\ last.op = "updateShelters"
    /\ upd.pc = "idle"
    /\ last.pre # <<>>
    /\ shelters # <<>>
    /\ Range(shelters) \cap Range(last.pre) = {}

\* C3, as claimed: updateShelters returns a new index and leaves the index
\* it was applied to unchanged, still answering from the old collection.
C3_OldIndexUnchanged ==
    (last.op = "updateShelters" /\ upd.pc = "idle") =>
        /\ last.ret # "undefined"
        /\ shelters = last.pre
        /\ [i \in 1..Len(tree) |-> tree[i].shelter] = last.pre

\* C3, amended: updateShelters returns nothing and changes the index it is
\* applied to in place: after the call that index holds the new collection,
\* and a query against it answers from the new collection.
C3_UpdatedInPlace ==
    (last.op = "updateShelters" /\ upd.pc = "idle") =>
        /\ last.ret = "undefined"
        /\ shelters = last.arg
        /\ [i \in 1..Len(tree) |-> tree[i].shelter] = last.arg
        /\ \A p \in QueryPoints :
               getNearestShelter(tree, p.lat, p.lon) \in Range(last.arg) \cup {null}

\* C3 witness: an update from one collection to a different one has returned,
\* and a query now answers with a shelter the old collection did not hold
C3_Witness ==
    /\ last.op = "updateShelters"
    /\ upd.pc = "idle"
    /\ last.pre # <<>>
    /\ \E p \in QueryPoints :
           /\ getNearestShelter(tree, p.lat, p.lon) # null
           /\ getNearestShelter(tree, p.lat, p.lon) \notin Range(last.pre)

\* C4: every query result is the result on an index holding exactly the old
\* or exactly the new collection; no query or scoring step runs while an
\* updateShelters call is under way, and all steps of one scoring pass read
\* one and the same collection and tree.
C4_QueriesSeeOldOrNew ==
    /\ (last.op \in Queries) =>
           /\ Returned
           /\ \/ last.ret = Answer(last.op, last.arg, NewIndex(shelters).tree)
              \/ /\ upd.pc # "idle"
                 /\ last.ret = Answer(last.op, last.arg, NewIndex(upd.old).tree)
    /\ pass.pc = "map" =>
           /\ upd.pc = "idle"
           /\ \A x \in pass.seen :
                  /\ x.shelters = shelters
                  /\ x.tree = NewIndex(shelters).tree
    /\ (last.op = "scoreAndRankRoutes" /\ Returned) =>
           last.ret = scoreAndRankRoutes(last.arg[1], NewIndex(shelters).tree,
                                         last.arg[2])

\* C4 witness: a scoring pass over two routes is half way, after an update
\* that changed the collection
C4_Witness ==
    /\ pass.pc = "map"
    /\ Len(pass.scoredRoutes) = 1
    /\ Len(pass.orsRoutes) = 2
    /\ shelters # <<>>
    /\ pass.scoredRoutes[1].nearbyShelters # <<>>

\* C5: after any sequence of updateShelters calls the index answers every
\* query, and a scoring pass returns, exactly as a freshly constructed index
\* over the current collection does.
C5_SameAsFreshIndex ==
    /\ upd.pc = "idle" =>
           /\ \A p \in QueryPoints :
                  /\ getNearestShelter(tree, p.lat, p.lon)
                         = getNearestShelter(NewIndex(shelters).tree, p.lat, p.lon)
                  /\ \A r \in Radii :
                         getSheltersWithinRadius(tree, p.lat, p.lon, r)
                             = getSheltersWithinRadius(NewIndex(shelters).tree,
                                                       p.lat, p.lon, r)
           /\ \A g \in Geometries, c \in Radii :
                  getSheltersNearRoute(tree, g, c)
                      = getSheltersNearRoute(NewIndex(shelters).tree, g, c)
    /\ (last.op = "scoreAndRankRoutes" /\ Returned) =>
           last.ret = scoreAndRankRoutes(last.arg[1], NewIndex(shelters).tree,
                                         last.arg[2])

\* C5 witness: a scoring pass has returned routes with shelters nearby, on an
\* index that is not empty
C5_Witness ==
    /\ last.op = "scoreAndRankRoutes"
    /\ Returned
    /\ Len(last.ret) = 2
    /\ last.ret[1].nearbyShelters # <<>>

\* C6: the safetyScore of calculateRouteMetrics lies in [0, 100], for finite
\* and infinite distances and any shelter count.
C6_SafetyScoreInRange ==
    last.op = "metricsOf" =>
        /\ last.ret.safetyScore >= 0
        /\ last.ret.safetyScore <= 100000

\* C6 witness: metrics of distances of which one is infinite and one finite,
\* with shelters near the route
C6_Witness ==
    /\ last.op = "metricsOf"
    /\ Infinity \in Range(last.arg[1])
    /\ \E d \in Range(last.arg[1]) : IsFinite(d)
    /\ last.arg[2] > 0
    /\ last.ret.safetyScore = 0

\* C7: getSheltersNearRoute returns every shelter of the collection whose
\* distance to the polyline is at most the corridor width.
C7_AllSheltersOfCorridor ==
    (last.op = "getSheltersNearRoute" /\ Returned) =>
        \A s \in Range(shelters) :
            pointToLineDistance(<<s.lon, s.lat>>, last.arg[1].coordinates)
                <= last.arg[2] => s \in Range(last.ret)

\* C8: getSheltersNearRoute returns no shelter farther from the polyline
\* than the corridor width.
C8_NoneBeyondCorridor ==
    (last.op = "getSheltersNearRoute" /\ Returned) =>
        \A s \in Range(last.ret) :
            pointToLineDistance(<<s.lon, s.lat>>, last.arg[1].coordinates)
                <= last.arg[2]

\* C8 witness: a corridor query returned a shelter while the collection holds
\* another shelter beyond the corridor
C8_Witness ==
    /\ last.op = "getSheltersNearRoute"
    /\ last.ret # <<>>
    /\ \E s \in Range(shelters) :
           pointToLineDistance(<<s.lon, s.lat>>, last.arg[1].coordinates)
               > last.arg[2]

\* C9: getSheltersWithinRadius returns exactly the shelters within the radius
\* by haversine distance.
C9_ExactlyWithinRadius ==
    last.op = "getSheltersWithinRadius" =>
        Returned /\ Range(last.ret) =
            { s \in Range(shelters) :
                haversineDistance(last.arg[1].lat, last.arg[1].lon, s.lat, s.lon)
                    <= last.arg[2] }

\* C10: on one index, the shelters within a radius of a point are among the
\* shelters within any larger radius of it.
C10_MonotonicInRadius ==
    \A p \in QueryPoints, r1 \in Radii, r2 \in Radii :
        r1 < r2 =>
            Range(getSheltersWithinRadius(tree, p.lat, p.lon, r1))
                \subseteq Range(getSheltersWithinRadius(tree, p.lat, p.lon, r2))

\* C10 witness: a radius query returned shelters, and a larger radius at the
\* same point returns more
C10_Witness ==
    /\ last.op = "getSheltersWithinRadius"
    /\ last.ret # <<>>
    /\ \E r2 \in Radii :
           /\ last.arg[2] < r2
           /\ Range(getSheltersWithinRadius(tree, last.arg[1].lat, last.arg[1].lon, r2))
                  # Range(last.ret)

\* the position at which the route source supplied the scored route r
Supplied(orsRoutes, r) ==
    CHOOSE k \in 1..Len(orsRoutes) :
        LineString(orsRoutes[k].geometry.coordinates) = r.geometry

\* C11: scoreAndRankRoutes returns every supplied route, in non-decreasing
\* order of combined score, and routes of equal combined score in the order
\* in which they were supplied.
C11_RankedStable ==
    (last.op = "scoreAndRankRoutes" /\ Returned) =>
        /\ Len(last.ret) = Len(last.arg[1])
        /\ \A i, j \in 1..Len(last.ret) : i < j =>
               LET scoreA == calculateCombinedScore(last.ret[i].metrics, last.arg[2])
                   scoreB == calculateCombinedScore(last.ret[j].metrics, last.arg[2])
               IN  /\ scoreA <= scoreB
                   /\ scoreA = scoreB =>
                          Supplied(last.arg[1], last.ret[i])
                              < Supplied(last.arg[1], last.ret[j])

\* two routes of equal combined score were ranked
C11_Witness ==
    /\ last.op = "scoreAndRankRoutes" /\ Returned
    /\ Len(last.ret) = 2
    /\ calculateCombinedScore(last.ret[1].metrics, last.arg[2])
           = calculateCombinedScore(last.ret[2].metrics, last.arg[2])

\* r stands before q in the ranking
Before(ranking, r, q) ==
    \E i, j \in 1..Len(ranking) : i < j /\ ranking[i] = r /\ ranking[j] = q

\* C12: at safetyWeight = 1 a route of strictly higher safetyScore ranks
\* before a route of lower safetyScore whatever the distances, and at
\* safetyWeight = 0 a strictly shorter route ranks before a longer one
\* whatever the safety scores.
C12_PureSafetyPureDistance ==
    last.op = "sort" =>
        \A i, j \in 1..Len(last.ret) : i < j =>
            /\ last.arg[2] = 10 =>
                   last.ret[i].metrics.safetyScore >= last.ret[j].metrics.safetyScore
            /\ last.arg[2] = 0 =>
                   last.ret[i].metrics.distanceKm <= last.ret[j].metrics.distanceKm

\* B (1.8 km, score 40) was supplied before A (2 km, score 90), and at
\* safetyWeight = 1 A is ranked first
C12_Witness ==
    /\ last.op = "sort"
    /\ last.arg = << <<Scored(1, 1800, 40000), Scored(2, 2000, 90000)>>, 10 >>
    /\ last.ret = <<Scored(2, 2000, 90000), Scored(1, 1800, 40000)>>

\* C13: when a route A of strictly higher safetyScore and longer distance
\* than a route B ranks before B at a safety weight, A ranks before B at
\* every higher weight on the same routes.
C13_MonotonicInWeight ==
    last.op = "sort" =>
        \A i, j \in 1..Len(last.ret) :
            ( /\ i < j
              /\ last.ret[i].metrics.safetyScore > last.ret[j].metrics.safetyScore
              /\ last.ret[i].metrics.distanceKm > last.ret[j].metrics.distanceKm )
            => \A w \in RankWeights : w >= last.arg[2] =>
                   Before(sortByCombinedScore(last.arg[1], w), last.ret[i], last.ret[j])

\* the safer and longer route A, supplied second, ranks first at weight 0.1
\* already, and second at weight 0
C13_Witness ==
    /\ last.op = "sort"
    /\ last.arg = << <<Scored(1, 1800, 40000), Scored(2, 2000, 90000)>>, 1 >>
    /\ last.ret = <<Scored(2, 2000, 90000), Scored(1, 1800, 40000)>>
    /\ sortByCombinedScore(last.arg[1], 0) = last.arg[1]

\* C14: a scored route with a sample point at which no shelter is found has
\* maxGapToShelter = +infinity and safetyScore = 0 whatever its count of
\* shelters near, its combined score is a finite number, and on an index of
\* no shelter its sheltersNearRoute is 0.
C14_NoShelterFound ==
    (last.op = "scoreAndRankRoutes" /\ Returned) =>
        \A i \in 1..Len(last.ret) :
            LET metrics   == last.ret[i].metrics
                distances == sampleDistances(tree, last.ret[i].geometry.coordinates)
                combined  == calculateCombinedScore(metrics, last.arg[2])
            IN  /\ (\E k \in 1..Len(distances) : distances[k] = Infinity) =>
                       /\ metrics.maxGapToShelter = Infinity
                       /\ metrics.safetyScore = 0
                       /\ IsFinite(combined) /\ combined >= 0
                /\ shelters = <<>> => metrics.sheltersNearRoute = 0

\* a route with a shelter in its 150 m corridor and a sample point at which
\* no shelter is found was scored
C14_Witness ==
    /\ last.op = "scoreAndRankRoutes" /\ Returned
    /\ \E i \in 1..Len(last.ret) :
           /\ last.ret[i].metrics.maxGapToShelter = Infinity
           /\ last.ret[i].metrics.sheltersNearRoute > 0
           /\ last.ret[i].metrics.safetyScore = 0

\* C15: on an index of no shelter every query returns, getNearestShelter
\* none, getNearestShelterDistance +infinity, getSheltersWithinRadius and
\* getSheltersNearRoute an empty list, and scoreAndRankRoutes one scored
\* route per supplied route; of no route it returns the empty list on any
\* index.
C15_EmptyNeverThrows ==
    /\ (shelters = <<>> /\ upd.pc = "idle" /\ pass.pc = "idle") =>
           /\ last.op \in Queries \cup {"scoreAndRankRoutes"} => Returned
           /\ last.op = "getNearestShelter" => last.ret = null
           /\ last.op = "getNearestShelterDistance" => last.ret = Infinity
           /\ last.op = "getSheltersWithinRadius" => last.ret = <<>>
           /\ last.op = "getSheltersNearRoute" => last.ret = <<>>
           /\ last.op = "scoreAndRankRoutes" => Len(last.ret) = Len(last.arg[1])
    /\ (last.op = "scoreAndRankRoutes" /\ pass.pc = "idle" /\ last.arg[1] = <<>>) =>
           Returned /\ last.ret = <<>>

\* the distance of the nearest shelter was asked of an index of no shelter
C15_Witness ==
    /\ shelters = <<>> /\ tree = <<>>
    /\ last.op = "getNearestShelterDistance" /\ Returned
    /\ last.ret = Infinity

\* C16: getSheltersNearRoute and scoreAndRankRoutes end with an error, and
\* return nothing, whenever a polyline given to them has fewer than two
\* positions or a NaN coordinate.
C16_MalformedPolylineFails ==
    /\ (last.op = "getSheltersNearRoute" /\ Malformed(last.arg[1].coordinates)) =>
           last.status = "threw"
    /\ ( /\ last.op = "scoreAndRankRoutes" /\ pass.pc = "idle"
         /\ \E i \in 1..Len(last.arg[1]) :
                Malformed(last.arg[1][i].geometry.coordinates) ) =>
           last.status = "threw"

\* C17: a radius or corridor query that returns a shelter returns every
\* shelter of the collection at the same coordinates, each as often as the
\* collection holds it.
C17_DuplicateLocationsAllReturned ==
    (last.op \in {"getSheltersWithinRadius", "getSheltersNearRoute"} /\ Returned) =>
        \A s \in Range(last.ret) : \A o \in Range(shelters) :
            (o.lat = s.lat /\ o.lon = s.lon) =>
                Count(last.ret, o) = Count(shelters, o)

\* a corridor query returned the two shelters that share a location
C17_Witness ==
    /\ last.op = "getSheltersNearRoute" /\ Returned
    /\ \E i, j \in 1..Len(last.ret) :
           /\ last.ret[i].id # last.ret[j].id
           /\ last.ret[i].lat = last.ret[j].lat
           /\ last.ret[i].lon = last.ret[j].lon

\* the least of the distances
Least(ds) == CHOOSE d \in Range(ds) : \A e \in Range(ds) : d <= e

\* the sum of the first n of the finite distances ds
RECURSIVE Total(_, _)
Total(ds, n) == IF n = 0 THEN 0 ELSE Total(ds, n - 1) + ds[n]

\* C18: the metrics of a route carry minDistanceToShelter, the least of the
\* per-sample distances to the nearest shelter.
C18_CarriesMinDistance ==
    last.op = "metricsOf" =>
        /\ "minDistanceToShelter" \in DOMAIN last.ret
        /\ last.ret.minDistanceToShelter = Least(last.arg[1])

\* C19: maxGapToShelter is the greatest of the per-sample distances and
\* avgDistanceToShelter their arithmetic mean (to the unit of the model,
\* +infinity when a distance is), so avgDistanceToShelter <= maxGapToShelter.
C19_MaxAndMean ==
    last.op = "metricsOf" =>
        LET distances == last.arg[1]
            metrics   == last.ret
            n         == Len(distances)
        IN  /\ metrics.maxGapToShelter \in Range(distances)
            /\ \A d \in Range(distances) : d <= metrics.maxGapToShelter
            /\ IF Infinity \in Range(distances)
               THEN metrics.avgDistanceToShelter = Infinity
               ELSE /\ metrics.avgDistanceToShelter * n <= Total(distances, n)
                    /\ Total(distances, n) < (metrics.avgDistanceToShelter + 1) * n
            /\ metrics.avgDistanceToShelter <= metrics.maxGapToShelter

\* distances of 0 m, 40 m and 260 m: the greatest is 260 m, the mean 100 m
C19_Witness ==
    /\ last.op = "metricsOf"
    /\ last.arg[1] = <<400, 0, 2600>>
    /\ last.ret.maxGapToShelter = 2600
    /\ last.ret.avgDistanceToShelter = 1000

\* values of maxGapToShelter and avgDistanceToShelter to compare at
Grid == SampleDistances \cup { 100, 1000, 1900, 2000, 5000 }

\* C20: with the other two inputs held, the safety score does not increase
\* when maxGapToShelter grows, does not increase when avgDistanceToShelter
\* grows, and does not decrease when sheltersNearRoute grows.
C20_SafetyScoreMonotonic ==
    last.op = "metricsOf" =>
        LET gap   == last.ret.maxGapToShelter
            avg   == last.ret.avgDistanceToShelter
            near  == last.ret.sheltersNearRoute
            score == last.ret.safetyScore
        IN  /\ \A g \in Grid : g >= gap => safetyScoreOf(g, avg, near) <= score
            /\ \A a \in Grid : a >= avg => safetyScoreOf(gap, a, near) <= score
            /\ \A n \in 0..(MaxNear + 1) : n >= near =>
                   safetyScoreOf(gap, avg, n) >= score

\* a score that a greater gap and a greater mean lower and one more shelter
\* near raises
C20_Witness ==
    /\ last.op = "metricsOf"
    /\ last.ret.safetyScore > 0 /\ last.ret.safetyScore < 100000
    /\ \E g \in Grid :
           /\ g > last.ret.maxGapToShelter
           /\ safetyScoreOf(g, last.ret.avgDistanceToShelter,
                            last.ret.sheltersNearRoute) < last.ret.safetyScore
    /\ \E a \in Grid :
           /\ a > last.ret.avgDistanceToShelter
           /\ safetyScoreOf(last.ret.maxGapToShelter, a,
                            last.ret.sheltersNearRoute) < last.ret.safetyScore
    /\ safetyScoreOf(last.ret.maxGapToShelter, last.ret.avgDistanceToShelter,
                     last.ret.sheltersNearRoute + 1) > last.ret.safetyScore

\* C21: of every scored route sheltersNearRoute is the number of shelters
\* getSheltersNearRoute gives for 150 m and nearbyShelters its list for
\* 200 m; every shelter of the first is in the second, so sheltersNearRoute
\* is at most the length of nearbyShelters.
C21_TwoCorridors ==
    (last.op = "scoreAndRankRoutes" /\ Returned) =>
        \A i \in 1..Len(last.ret) :
            LET r       == last.ret[i]
                counted == getSheltersNearRoute(tree, r.geometry, 1500)
            IN  /\ r.metrics.sheltersNearRoute = Len(counted)
                /\ r.nearbyShelters = getSheltersNearRoute(tree, r.geometry, 2000)
                /\ \A s \in Range(counted) :
                       Count(counted, s) <= Count(r.nearbyShelters, s)
                /\ r.metrics.sheltersNearRoute <= Len(r.nearbyShelters)

\* a scored route with a shelter counted, and another one shown only
C21_Witness ==
    /\ last.op = "scoreAndRankRoutes" /\ Returned
    /\ \E i \in 1..Len(last.ret) :
           /\ last.ret[i].metrics.sheltersNearRoute > 0
           /\ last.ret[i].metrics.sheltersNearRoute < Len(last.ret[i].nearbyShelters)

\* C22: the sampler gives sampleCount + 1 points where sampleCount is
\* max(10, ceil(length / 25 m)): the first is the first vertex, the last the
\* last vertex, every point is on the polyline, consecutive points are at
\* most 25 m apart, and along a single segment they move away from its start.
C22_SamplerPoints ==
    last.op = "samplePoints" =>
        LET coords      == last.arg
            pts         == last.ret
            lengthKm    == length(coords)
            sampleCount == Len(pts) - 1
        IN  /\ sampleCount >= 10
            /\ sampleCount * 250 >= lengthKm
            /\ sampleCount > 10 => (sampleCount - 1) * 250 < lengthKm
            /\ pts[1] = coords[1]
            /\ pts[Len(pts)] = coords[Len(coords)]
            /\ \A k \in 1..Len(pts) : pointToLineDistance(pts[k], coords) <= 2
            /\ \A k \in 1..sampleCount : distance(pts[k], pts[k + 1]) <= 250 + 2
            /\ Len(coords) = 2 =>
                   \A k \in 1..sampleCount :
                       distance(coords[1], pts[k]) <= distance(coords[1], pts[k + 1])

\* a polyline of 111 m and 176 m took 12 steps, more than the least 10, with
\* a point past its middle vertex
C22_Witness ==
    /\ last.op = "samplePoints"
    /\ last.arg = <<Pos(0, 0), Pos(0, 1112), Pos(1200, 2400)>>
    /\ Len(last.ret) = 13
    /\ \E k \in 2..(Len(last.ret) - 1) : last.ret[k][1] > 0

\* C23: a step of a query or of scoreAndRankRoutes leaves the backing
\* collection and the tree as they were, and throughout a scoring pass the
\* caller's list of candidates is the list it gave, in its order.
C23_ReadOnly ==
    [][ /\ (upd.pc = "idle" /\ upd'.pc = "idle") =>
               (shelters' = shelters /\ tree' = tree)
        /\ pass'.pc = "map" =>
               /\ pass'.orsRoutes = last'.arg[1]
               /\ pass.pc = "map" => pass'.orsRoutes = pass.orsRoutes ]_vars

\* a pass over an index of two shelters returned two routes in the other
\* order than the caller's list has them
C23_Witness ==
    /\ last.op = "scoreAndRankRoutes" /\ Returned
    /\ Len(shelters) = 2 /\ Len(tree) = 2
    /\ Len(last.ret) = 2
    /\ last.ret[1].geometry = last.arg[1][2].geometry

\* C24: getSheltersWithinRadius with radiusMeters = 0 returns every shelter
\* of the collection at exactly the coordinates of the query point.
C24_RadiusZeroInclusive ==
    (last.op = "getSheltersWithinRadius" /\ Returned /\ last.arg[2] = 0) =>
        \A s \in Range(shelters) :
            (s.lat = last.arg[1].lat /\ s.lon = last.arg[1].lon) =>
                s \in Range(last.ret)

\* radius 0 was asked at the coordinates of a shelter, and gave it
C24_Witness ==
    /\ last.op = "getSheltersWithinRadius" /\ Returned
    /\ last.arg[2] = 0
    /\ \E s \in Range(shelters) :
           /\ s.lat = last.arg[1].lat /\ s.lon = last.arg[1].lon
           /\ s \in Range(last.ret)

\* C25: the shelter getNearestShelter returns is a nearest one: no shelter
\* of the collection is strictly closer to the query point.
C25_TrueNearest ==
    (last.op = "getNearestShelter" /\ Returned /\ last.ret # null) =>
        \A s \in Range(shelters) :
            haversineDistance(last.arg.lat, last.arg.lon, s.lat, s.lon)
                >= haversineDistance(last.arg.lat, last.arg.lon,
                                     last.ret.lat, last.ret.lon)

\* C26: after updateShelters to a collection that holds every shelter of the
\* collection before, getNearestShelterDistance is at no query point greater
\* than it was on the index of the collection before.
C26_SupersetNeverFarther ==
    ( /\ last.op = "updateShelters" /\ Returned
      /\ Range(last.pre) \subseteq Range(shelters) ) =>
        \A p \in QueryPoints :
            getNearestShelterDistance(tree, p.lat, p.lon)
                <= getNearestShelterDistance(NewIndex(last.pre).tree, p.lat, p.lon)

\* C27: the list scoreAndRankRoutes returns is as long as the list of
\* candidates, and the geometry of each candidate is that of exactly one
\* scored route.
C27_Permutation ==
    (last.op = "scoreAndRankRoutes" /\ Returned) =>
        /\ Len(last.ret) = Len(last.arg[1])
        /\ \A k \in 1..Len(last.arg[1]) :
               Cardinality({ i \in 1..Len(last.ret) :
                   last.ret[i].geometry
                       = LineString(last.arg[1][k].geometry.coordinates) }) = 1

\* two candidates came back, the second one first
C27_Witness ==
    /\ last.op = "scoreAndRankRoutes" /\ Returned
    /\ Len(last.arg[1]) = 2
    /\ last.ret[1].geometry = last.arg[1][2].geometry
    /\ last.ret[2].geometry = last.arg[1][1].geometry

\* the shelters the pages that a city served hold, from its log alone
RECURSIVE Served(_, _, _)
Served(city, log, k) ==
    IF k > Len(log) THEN <<>>
    ELSE Records(city, (k - 1) * PageSize(city), log[k]) \o Served(city, log, k + 1)

\* what the city owes the result: nothing if a page failed
Owed(city) ==
    LET log == fetching.cities[city].log
    IN  IF \E k \in 1..Len(log) : log[k] = "failed" THEN <<>>
        ELSE Converted(city, Served(city, log, 1))

\* C30: fetchAllShelters never rejects; it resolves with the shelters of
\* Tel Aviv followed by those of Jerusalem, a city of which a page failed
\* giving none of its shelters, and with the empty list when both failed.
C30_ResolvesWithWhatSucceeded ==
    /\ fetching.pc \in {"idle", "awaiting", "resolved"}
    /\ fetching.pc = "resolved" =>
           /\ last.op = "fetchAllShelters" /\ Returned
           /\ last.ret = Owed("tel-aviv") \o Owed("jerusalem")
           /\ (\A city \in Cities : fetching.cities[city].pc = "rejected") =>
                  last.ret = <<>>

\* Tel Aviv failed on its second page, Jerusalem gave shelters: the result
\* is the shelters of Jerusalem
C30_Witness ==
    /\ fetching.pc = "resolved"
    /\ fetching.cities["tel-aviv"].log = <<"full", "failed">>
    /\ fetching.cities["jerusalem"].pc = "fulfilled"
    /\ last.ret # <<>>
    /\ \A i \in 1..Len(last.ret) : last.ret[i].city = "jerusalem"

\* C28: routeLoading is true while a route computation that handleSearch
\* or routeToShelter started has not finished, and false when none is left.
C28_LoadingWhileInFlight ==
    home.routeLoading <=> (home.computations # {})

\* C29: after two map clicks on a page with no origin, once their
\* reverse geocoding has resolved, origin is the point of the first click
\* and destination the point of the second.
C29_OriginThenDestination ==
    (home.clicked = 2 /\ home.clicks = {} /\ home.started = 0) =>
        /\ home.origin = RoutePoint("click", 1)
        /\ home.destination = RoutePoint("click", 2)

====
